---- MODULE Spec2Model ----
(***************************************************************************)
(* Model of ipwhere: the Reader of the geo package (two database handles   *)
(* behind a sync.RWMutex, Lookup and Close), IPInfo.FilterFields, the HTTP *)
(* handlers of the api package and main.                                   *)
(*                                                                         *)
(* Representation                                                          *)
(*   - a net.IP is the sequence of its four octets when it has a           *)
(*     four-octet form, else the sequence of its eight 16-bit groups;      *)
(*     IPString is its canonical text;                                     *)
(*   - a Go pointer (to float64, uint) is <<>> for nil and <<v>> for &v; *)
(*   - a hostname is a sequence of one-character strings, so that the      *)
(*     trailing-dot strip is computed; the other strings are atomic, ""    *)
(*     being Go's empty string;                                            *)
(*   - coordinates are integers (degrees), only compared with 0 and copied;*)
(*   - a dataset query returns [err, val]: err = TRUE is `err != nil`.     *)
(***************************************************************************)
EXTENDS Integers, Sequences, FiniteSets, TLC

VARIABLES
    cityOpen,               \* Reader.cityDB is open (not yet closed)
    asnOpen,                \* Reader.asnDB is open (not yet closed)
    enableOnlineFeatures,   \* Reader.enableOnlineFeatures
    mu,                     \* Reader.mu, the sync.RWMutex
    pc,                     \* pc[p]: position of caller p in Lookup
    arg,                    \* arg[p]: the ip argument of p's Lookup call
    city,                   \* city[p]: local (city, err) of r.cityDB.City(ip)
    asn,                    \* asn[p]: local (asn, err) of r.asnDB.ASN(ip)
    info,                   \* info[p]: the IPInfo being built / returned
    err,                    \* err[p]: the error Lookup returned
    cpc,                    \* position of the goroutine calling Close
    rec,                    \* the IPInfo FilterFields is called on
    fields,                 \* the fields argument of FilterFields
    result,                 \* the map FilterFields returned
    ppc,                    \* position of the caller of FilterFields
    env,                    \* what main finds: flags, paths, database files
    mpc,                    \* position of main
    nerr,                   \* the error NewReader returned
    out,                    \* how the process ended and what it printed
    geoReader,              \* Handler.geoReader: the ReaderInterface in use
    req,                    \* the HTTP request being handled
    hpc,                    \* position of the HTTP handler
    hloc,                   \* the handler's locals
    resp                    \* the HTTP response written

vars == <<cityOpen, asnOpen, enableOnlineFeatures, mu, pc, arg, city, asn,
          info, err, cpc, rec, fields, result, ppc, env, mpc, nerr, out,
          geoReader, req, hpc, hloc, resp>>

readerVars == <<cityOpen, asnOpen, enableOnlineFeatures, mu, pc, arg, city,
                asn, info, err, cpc>>

projectVars == <<rec, fields, result, ppc>>

mainVars == <<env, mpc, nerr, out>>

httpVars == <<geoReader, req, hpc, hloc, resp>>

otherVars == <<mainVars, httpVars>>

(***************************************************************************)
(* Bounds                                                                  *)
(***************************************************************************)
\* number of goroutines calling Lookup concurrently
NumLookups == 2

\* longest fields list handed to FilterFields
MaxFields == 2

Procs == 1..NumLookups

(***************************************************************************)
(* Data                                                                    *)
(***************************************************************************)
Attribution == "IP Geolocation by DB-IP (https://db-ip.com)"

ZeroInfo ==
    [IP |-> "", Hostname |-> <<>>, Country |-> "", ISOCode |-> "",
     InEU |-> FALSE, City |-> "", Region |-> "", Latitude |-> <<>>,
     Longitude |-> <<>>, Timezone |-> "", ASN |-> <<>>, Organization |-> "",
     Attribution |-> ""]

\* the zero value of geoip2.City, as far as Lookup reads it
ZeroCity ==
    [CountryName |-> "", CountryIsoCode |-> "", IsInEuropeanUnion |-> FALSE,
     CityName |-> "", Subdivisions |-> <<>>, Latitude |-> 0, Longitude |-> 0,
     TimeZone |-> ""]

\* the zero value of geoip2.ASN
ZeroASN ==
    [AutonomousSystemNumber |-> 0, AutonomousSystemOrganization |-> ""]

\* the lower-case hexadecimal digit of n < 16
HexDigit(n) ==
    CASE n = 0 -> "0" [] n = 1 -> "1" [] n = 2 -> "2" [] n = 3 -> "3"
      [] n = 4 -> "4" [] n = 5 -> "5" [] n = 6 -> "6" [] n = 7 -> "7"
      [] n = 8 -> "8" [] n = 9 -> "9" [] n = 10 -> "a" [] n = 11 -> "b"
      [] n = 12 -> "c" [] n = 13 -> "d" [] n = 14 -> "e" [] n = 15 -> "f"

RECURSIVE HexString(_)
\* a 16-bit group in lower-case hexadecimal without leading zeros
HexString(n) ==
    IF n < 16 THEN HexDigit(n) ELSE HexString(n \div 16) \o HexDigit(n % 16)

RECURSIVE JoinHex(_)
\* the groups of g in hexadecimal, separated by ":"
JoinHex(g) ==
    IF g = <<>> THEN ""
    ELSE IF Len(g) = 1 THEN HexString(g[1])
    ELSE HexString(g[1]) \o ":" \o JoinHex(Tail(g))

RECURSIVE ZeroRun(_, _)
\* the number of consecutive zero groups of g from index i on
ZeroRun(g, i) ==
    IF i <= Len(g) /\ g[i] = 0 THEN 1 + ZeroRun(g, i + 1) ELSE 0

\* ip.String() of an address that has no four-octet form: the first of
\* the longest runs of more than one zero group is written "::"
IPv6String(g) ==
    LET longest == CHOOSE n \in 0..8 :
                      /\ \E i \in 1..8 : ZeroRun(g, i) = n
                      /\ \A i \in 1..8 : ZeroRun(g, i) <= n
        e0 == CHOOSE i \in 1..8 :
                  /\ ZeroRun(g, i) = longest
                  /\ \A j \in 1..(i - 1) : ZeroRun(g, j) < longest
    IN IF longest < 2 THEN JoinHex(g)
       ELSE JoinHex(SubSeq(g, 1, e0 - 1)) \o "::"
                \o JoinHex(SubSeq(g, e0 + longest, 8))

\* ip.String(): dotted decimal for an address with a four-octet form
IPString(ip) ==
    IF Len(ip) = 4
    THEN ToString(ip[1]) \o "." \o ToString(ip[2]) \o "." \o ToString(ip[3])
             \o "." \o ToString(ip[4])
    ELSE IPv6String(ip)

(***************************************************************************)
(* The two datasets.  The addresses are chosen so that every combination   *)
(* of match / no match occurs, together with the records' corner cases:    *)
(* a coordinate that is zero, both zero, no subdivision, ASN number 0.     *)
(***************************************************************************)
IPBoth     == <<8, 8, 8, 8>>
IPCityOnly == <<1, 1, 1, 1>>
IPAsnOnly  == <<9, 9, 9, 9>>
IPNone     == <<10, 0, 0, 1>>
IPZero     == <<127, 0, 0, 1>>

IPs == {IPBoth, IPCityOnly, IPAsnOnly, IPNone, IPZero}

QueryError(zero) == [err |-> TRUE, val |-> zero]
QueryOK(val) == [err |-> FALSE, val |-> val]

\* the content of the city dataset
CityData(ip) ==
    CASE ip = IPBoth ->
            QueryOK([CountryName |-> "United States", CountryIsoCode |-> "US",
                     IsInEuropeanUnion |-> FALSE, CityName |-> "Mountain View",
                     Subdivisions |-> <<"California", "Santa Clara">>,
                     Latitude |-> 37, Longitude |-> -122,
                     TimeZone |-> "America/Los_Angeles"])
      [] ip = IPCityOnly ->
            QueryOK([CountryName |-> "Germany", CountryIsoCode |-> "DE",
                     IsInEuropeanUnion |-> TRUE, CityName |-> "",
                     Subdivisions |-> <<>>,
                     Latitude |-> 0, Longitude |-> 9,
                     TimeZone |-> "Europe/Berlin"])
      [] ip = IPZero -> QueryOK(ZeroCity)
      [] OTHER -> QueryError(ZeroCity)

\* the content of the ASN dataset
ASNData(ip) ==
    CASE ip = IPBoth ->
            QueryOK([AutonomousSystemNumber |-> 15169,
                     AutonomousSystemOrganization |-> "Google LLC"])
      [] ip = IPAsnOnly ->
            QueryOK([AutonomousSystemNumber |-> 19281,
                     AutonomousSystemOrganization |-> "Quad9"])
      [] ip = IPZero -> QueryOK(ZeroASN)
      [] OTHER -> QueryError(ZeroASN)

\* r.cityDB.City(ip): a closed handle answers with an error
CityQuery(open, ip) == IF open THEN CityData(ip) ELSE QueryError(ZeroCity)

\* r.asnDB.ASN(ip): a closed handle answers with an error
ASNQuery(open, ip) == IF open THEN ASNData(ip) ELSE QueryError(ZeroASN)

(***************************************************************************)
(* net.LookupAddr: what the resolver may answer                            *)
(***************************************************************************)
DNSOutcomes ==
    { [err |-> TRUE,  names |-> <<>>],
      [err |-> FALSE, names |-> <<>>],
      [err |-> FALSE, names |-> << <<"d", "n", "s", ".">>, <<"x">> >>],
      [err |-> FALSE, names |-> << <<"d", "n", "s">> >>],
      [err |-> FALSE, names |-> << <<"a", ".", ".">> >>],
      [err |-> FALSE, names |-> << <<>> >>] }

(***************************************************************************)
(* Lookup, statement by statement                                          *)
(***************************************************************************)
\* variant: the attribution is not stamped on the new record
NewInfo_NoAttribution(ip) == [ZeroInfo EXCEPT !.IP = IPString(ip)]

\* variant: the record is built in a buffer shared by the callers
NewInfo_Shared(ip) ==
    [info[1] EXCEPT !.IP = IPString(ip), !.Attribution = Attribution]

\* info := &IPInfo{IP: ip.String(), Attribution: Attribution}
NewInfo(ip) == [ZeroInfo EXCEPT !.IP = IPString(ip), !.Attribution = Attribution]

\* variant: coordinates are kept only when both are non-zero
ApplyCity_AndCoords(i, q) ==
    IF q.err THEN i
    ELSE LET c == q.val
             hasCoord == c.Latitude # 0 /\ c.Longitude # 0
         IN [i EXCEPT
                !.Country = c.CountryName,
                !.ISOCode = c.CountryIsoCode,
                !.InEU = c.IsInEuropeanUnion,
                !.City = c.CityName,
                !.Region = IF Len(c.Subdivisions) > 0
                           THEN c.Subdivisions[1] ELSE @,
                !.Latitude = IF hasCoord THEN <<c.Latitude>> ELSE @,
                !.Longitude = IF hasCoord THEN <<c.Longitude>> ELSE @,
                !.Timezone = c.TimeZone]

\* if err == nil { info.Country = ... ; info.Timezone = ... }
ApplyCity(i, q) ==
    IF q.err THEN i
    ELSE LET c == q.val
             hasCoord == c.Latitude # 0 \/ c.Longitude # 0
         IN [i EXCEPT
                !.Country = c.CountryName,
                !.ISOCode = c.CountryIsoCode,
                !.InEU = c.IsInEuropeanUnion,
                !.City = c.CityName,
                !.Region = IF Len(c.Subdivisions) > 0
                           THEN c.Subdivisions[1] ELSE @,
                !.Latitude = IF hasCoord THEN <<c.Latitude>> ELSE @,
                !.Longitude = IF hasCoord THEN <<c.Longitude>> ELSE @,
                !.Timezone = c.TimeZone]

\* variant: an AS number of 0 is taken for no number
ApplyASN_SkipZero(i, q) ==
    IF q.err THEN i
    ELSE [i EXCEPT
             !.ASN = IF q.val.AutonomousSystemNumber = 0
                     THEN @ ELSE <<q.val.AutonomousSystemNumber>>,
             !.Organization = q.val.AutonomousSystemOrganization]

\* variant: the ASN fields are set without looking at err
ApplyASN_IgnoreErr(i, q) ==
    [i EXCEPT
        !.ASN = <<q.val.AutonomousSystemNumber>>,
        !.Organization = q.val.AutonomousSystemOrganization]

\* if err == nil { info.ASN = &asnNum; info.Organization = ... }
ApplyASN(i, q) ==
    IF q.err THEN i
    ELSE [i EXCEPT
             !.ASN = <<q.val.AutonomousSystemNumber>>,
             !.Organization = q.val.AutonomousSystemOrganization]

\* variant: every trailing dot is stripped
TrimTrailingDot_All(hostname) ==
    IF Len(hostname) > 0 /\ hostname[Len(hostname)] = "."
    THEN SelectSeq(hostname, LAMBDA ch : ch # ".")
    ELSE hostname

\* the trailing-dot strip of the hostname
TrimTrailingDot(hostname) ==
    IF Len(hostname) > 0 /\ hostname[Len(hostname)] = "."
    THEN SubSeq(hostname, 1, Len(hostname) - 1)
    ELSE hostname

\* if r.enableOnlineFeatures { names, err := net.LookupAddr(...) ... }
ApplyHostname(i, enabled, d) ==
    IF enabled /\ ~d.err /\ Len(d.names) > 0
    THEN [i EXCEPT !.Hostname = TrimTrailingDot(d.names[1])]
    ELSE i

(***************************************************************************)
(* sync.RWMutex: readers share, a writer excludes, and a writer that is    *)
(* waiting keeps new readers out.                                          *)
(***************************************************************************)
NewRWMutex == [readerCount |-> 0, writerWaiting |-> FALSE, writerHeld |-> FALSE]

\* variant: a waiting writer does not keep new readers out
CanRLock_IgnoreWaiting(m) == ~m.writerHeld

\* variant: a plain mutex, one reader at a time
CanRLock_Exclusive(m) ==
    ~m.writerHeld /\ ~m.writerWaiting /\ m.readerCount = 0

\* r.mu.RLock() can return
CanRLock(m) == ~m.writerHeld /\ ~m.writerWaiting

\* r.mu.RLock()
RLock(m) == [m EXCEPT !.readerCount = @ + 1]

\* r.mu.RUnlock()
RUnlock(m) == [m EXCEPT !.readerCount = @ - 1]

\* r.mu.Lock() announces itself to the readers
LockAnnounce(m) == [m EXCEPT !.writerWaiting = TRUE]

\* variant: the writer does not wait for the readers inside
CanLock_NoWait(m) == m.writerWaiting /\ ~m.writerHeld

\* r.mu.Lock() can return: the readers that were inside have left
CanLock(m) == m.writerWaiting /\ ~m.writerHeld /\ m.readerCount = 0

\* r.mu.Lock() returns
Lock(m) == [m EXCEPT !.writerWaiting = FALSE, !.writerHeld = TRUE]

\* r.mu.Unlock()
Unlock(m) == [m EXCEPT !.writerHeld = FALSE]

(***************************************************************************)
(* Reader.Lookup, one action per statement, for the caller p               *)
(***************************************************************************)
NoQuery == [err |-> FALSE, val |-> <<>>]

closeVars == <<cityOpen, asnOpen, cpc>>

\* a goroutine calls r.Lookup(ip)
LookupEnter(p, ip) ==
    /\ pc[p] \in {"idle", "done"}
    /\ pc' = [pc EXCEPT ![p] = "rlock"]
    /\ arg' = [arg EXCEPT ![p] = ip]
    /\ city' = [city EXCEPT ![p] = NoQuery]
    /\ asn' = [asn EXCEPT ![p] = NoQuery]
    /\ info' = [info EXCEPT ![p] = ZeroInfo]
    /\ err' = [err EXCEPT ![p] = "none"]
    /\ UNCHANGED <<mu, enableOnlineFeatures>>
    /\ UNCHANGED closeVars

\* a caller calls reader.Lookup(ip) and does nothing else meanwhile
LookupCall(p, ip) ==
    /\ LookupEnter(p, ip)
    /\ UNCHANGED projectVars
    /\ UNCHANGED otherVars

\* r.mu.RLock(); defer r.mu.RUnlock(); info := &IPInfo{...}
LookupRLock(p) ==
    /\ pc[p] = "rlock"
    /\ CanRLock(mu)
    /\ mu' = RLock(mu)
    /\ info' = [info EXCEPT ![p] = NewInfo(arg[p])]
    /\ pc' = [pc EXCEPT ![p] = "city"]
    /\ UNCHANGED <<arg, city, asn, err, enableOnlineFeatures>>
    /\ UNCHANGED closeVars
    /\ UNCHANGED projectVars
    /\ UNCHANGED otherVars

\* city, err := r.cityDB.City(ip); if err == nil { ... }
LookupCity(p) ==
    /\ pc[p] = "city"
    /\ LET q == CityQuery(cityOpen, arg[p])
       IN /\ city' = [city EXCEPT ![p] = q]
          /\ info' = [info EXCEPT ![p] = ApplyCity(info[p], q)]
    /\ pc' = [pc EXCEPT ![p] = "asn"]
    /\ UNCHANGED <<mu, arg, asn, err, enableOnlineFeatures>>
    /\ UNCHANGED closeVars
    /\ UNCHANGED projectVars
    /\ UNCHANGED otherVars

\* asn, err := r.asnDB.ASN(ip); if err == nil { ... }
LookupASN(p) ==
    /\ pc[p] = "asn"
    /\ LET q == ASNQuery(asnOpen, arg[p])
       IN /\ asn' = [asn EXCEPT ![p] = q]
          /\ info' = [info EXCEPT ![p] = ApplyASN(info[p], q)]
    /\ pc' = [pc EXCEPT ![p] = "dns"]
    /\ UNCHANGED <<mu, arg, city, err, enableOnlineFeatures>>
    /\ UNCHANGED closeVars
    /\ UNCHANGED projectVars
    /\ UNCHANGED otherVars

\* if r.enableOnlineFeatures { names, err := net.LookupAddr(ip.String()) ... }
LookupHostname(p, d) ==
    /\ pc[p] = "dns"
    /\ info' = [info EXCEPT ![p] = ApplyHostname(info[p], enableOnlineFeatures, d)]
    /\ pc' = [pc EXCEPT ![p] = "return"]
    /\ UNCHANGED <<mu, arg, city, asn, err, enableOnlineFeatures>>
    /\ UNCHANGED closeVars
    /\ UNCHANGED projectVars
    /\ UNCHANGED otherVars

\* variant: `return info, err`, the err of the last dataset query
LookupReturn_LastErr(p) ==
    /\ pc[p] = "return"
    /\ mu' = RUnlock(mu)
    /\ err' = [err EXCEPT ![p] = IF asn[p].err THEN "error" ELSE "nil"]
    /\ pc' = [pc EXCEPT ![p] = "done"]
    /\ UNCHANGED <<arg, city, asn, info, enableOnlineFeatures>>
    /\ UNCHANGED closeVars
    /\ UNCHANGED projectVars
    /\ UNCHANGED otherVars

\* return info, nil (and the deferred r.mu.RUnlock())
LookupReturn(p) ==
    /\ pc[p] = "return"
    /\ mu' = RUnlock(mu)
    /\ err' = [err EXCEPT ![p] = "nil"]
    /\ pc' = [pc EXCEPT ![p] = "done"]
    /\ UNCHANGED <<arg, city, asn, info, enableOnlineFeatures>>
    /\ UNCHANGED closeVars
    /\ UNCHANGED projectVars
    /\ UNCHANGED otherVars

(***************************************************************************)
(* Reader.Close, one action per statement                                  *)
(***************************************************************************)
lookupVars == <<pc, arg, city, asn, info, err, enableOnlineFeatures>>

\* a goroutine calls r.Close(): r.mu.Lock() starts
CloseCall ==
    /\ cpc = "idle"
    /\ mu' = LockAnnounce(mu)
    /\ cpc' = "lock"
    /\ UNCHANGED <<cityOpen, asnOpen>>
    /\ UNCHANGED lookupVars
    /\ UNCHANGED projectVars
    /\ UNCHANGED otherVars

\* r.mu.Lock() returns; defer r.mu.Unlock()
CloseLock ==
    /\ cpc = "lock"
    /\ CanLock(mu)
    /\ mu' = Lock(mu)
    /\ cpc' = "city"
    /\ UNCHANGED <<cityOpen, asnOpen>>
    /\ UNCHANGED lookupVars
    /\ UNCHANGED projectVars
    /\ UNCHANGED otherVars

\* if r.cityDB != nil { r.cityDB.Close() }
CloseCity ==
    /\ cpc = "city"
    /\ cityOpen' = FALSE
    /\ cpc' = "asn"
    /\ UNCHANGED <<asnOpen, mu>>
    /\ UNCHANGED lookupVars
    /\ UNCHANGED projectVars
    /\ UNCHANGED otherVars

\* if r.asnDB != nil { r.asnDB.Close() }
CloseASN ==
    /\ cpc = "asn"
    /\ asnOpen' = FALSE
    /\ cpc' = "return"
    /\ UNCHANGED <<cityOpen, mu>>
    /\ UNCHANGED lookupVars
    /\ UNCHANGED projectVars
    /\ UNCHANGED otherVars

\* return (and the deferred r.mu.Unlock())
CloseReturn ==
    /\ cpc = "return"
    /\ mu' = Unlock(mu)
    /\ cpc' = "done"
    /\ UNCHANGED <<cityOpen, asnOpen>>
    /\ UNCHANGED lookupVars
    /\ UNCHANGED projectVars
    /\ UNCHANGED otherVars

(***************************************************************************)
(* The Reader under concurrent callers                                     *)
(***************************************************************************)
\* NewReader returned a Reader: both handles open, the mutex free
InitReader ==
    /\ cityOpen = TRUE
    /\ asnOpen = TRUE
    /\ enableOnlineFeatures \in BOOLEAN
    /\ mu = NewRWMutex
    /\ pc = [p \in Procs |-> "idle"]
    /\ arg = [p \in Procs |-> IPNone]
    /\ city = [p \in Procs |-> NoQuery]
    /\ asn = [p \in Procs |-> NoQuery]
    /\ info = [p \in Procs |-> ZeroInfo]
    /\ err = [p \in Procs |-> "none"]
    /\ cpc = "idle"

InitNoProject ==
    /\ rec = ZeroInfo
    /\ fields = <<>>
    /\ result = <<>>
    /\ ppc = "none"

\* main is not part of the run
InitNoMain ==
    /\ env = [cityPath |-> FALSE, asnPath |-> FALSE, cityFile |-> FALSE,
              asnFile |-> FALSE, online |-> FALSE, args |-> <<>>]
    /\ mpc = "none"
    /\ nerr = "none"
    /\ out = [exit |-> "none", stdout |-> <<>>]

\* no HTTP handler is part of the run
InitNoHTTP ==
    /\ geoReader = "reader"
    /\ req = [route |-> "none"]
    /\ hpc = "none"
    /\ hloc = [ipStr |-> <<>>, ip |-> <<>>, called |-> FALSE]
    /\ resp = [status |-> 0, body |-> <<>>]

Init == InitReader /\ InitNoProject /\ InitNoMain /\ InitNoHTTP

Next ==
    \/ \E p \in Procs : \E ip \in IPs : LookupCall(p, ip)
    \/ \E p \in Procs : LookupRLock(p)
    \/ \E p \in Procs : LookupCity(p)
    \/ \E p \in Procs : LookupASN(p)
    \/ \E p \in Procs : \E d \in DNSOutcomes : LookupHostname(p, d)
    \/ \E p \in Procs : LookupReturn(p)
    \/ CloseCall
    \/ CloseLock
    \/ CloseCity
    \/ CloseASN
    \/ CloseReturn

Spec == Init /\ [][Next]_vars

(***************************************************************************)
(* The Reader's lock.  Which address is looked up and what the resolver    *)
(* answers make no difference to the lock, so the callers use two          *)
(* addresses and two answers.                                              *)
(***************************************************************************)
LockIPs == {IPBoth, IPNone}

LockDNS ==
    { [err |-> TRUE,  names |-> <<>>],
      [err |-> FALSE, names |-> << <<"d", "n", "s", ".">>, <<"x">> >>] }

\* the steps of the calls that are under way: a Lookup that holds the
\* shared lock, and Close once it has been called
InFlight ==
    \/ \E p \in Procs : LookupCity(p)
    \/ \E p \in Procs : LookupASN(p)
    \/ \E p \in Procs : \E d \in LockDNS : LookupHostname(p, d)
    \/ \E p \in Procs : LookupReturn(p)
    \/ CloseLock
    \/ CloseCity
    \/ CloseASN
    \/ CloseReturn

NextLock ==
    \/ \E p \in Procs : \E ip \in LockIPs : LookupCall(p, ip)
    \/ \E p \in Procs : LookupRLock(p)
    \/ \E p \in Procs : LookupCity(p)
    \/ \E p \in Procs : LookupASN(p)
    \/ \E p \in Procs : \E d \in LockDNS : LookupHostname(p, d)
    \/ \E p \in Procs : LookupReturn(p)
    \/ CloseCall
    \/ CloseLock
    \/ CloseCity
    \/ CloseASN
    \/ CloseReturn

\* goroutines that can run do run: a call that is under way goes on
SpecLock == Init /\ [][NextLock]_vars /\ WF_vars(InFlight)

(***************************************************************************)
(* IPInfo.FilterFields                                                     *)
(***************************************************************************)
\* fieldMap := map[string]interface{}{"hostname": info.Hostname, ...}
FieldMap(i) ==
    [hostname |-> i.Hostname, country |-> i.Country, iso_code |-> i.ISOCode,
     in_eu |-> i.InEU, city |-> i.City, region |-> i.Region,
     latitude |-> i.Latitude, longitude |-> i.Longitude,
     timezone |-> i.Timezone, asn |-> i.ASN, organization |-> i.Organization]

\* m[k] = v on a Go map
MapPut(m, k, v) == [x \in DOMAIN m \cup {k} |-> IF x = k THEN v ELSE m[x]]

\* variant: a name that is requested again is taken out of the map
FilterStep_RepeatRemoves(res, fieldMap, field) ==
    IF field \notin DOMAIN fieldMap THEN res
    ELSE IF field \in DOMAIN res
    THEN [x \in DOMAIN res \ {field} |-> res[x]]
    ELSE MapPut(res, field, fieldMap[field])

\* variant: the ok of the map read is not tested, a miss stores nil
FilterStep_NoOkCheck(res, fieldMap, field) ==
    MapPut(res, field,
           IF field \in DOMAIN fieldMap THEN fieldMap[field] ELSE <<>>)

\* if val, ok := fieldMap[field]; ok { result[field] = val }
FilterStep(res, fieldMap, field) ==
    IF field \in DOMAIN fieldMap THEN MapPut(res, field, fieldMap[field]) ELSE res

RECURSIVE FilterLoop(_, _, _, _)
\* for _, field := range fields { ... }, from index k on
FilterLoop(res, fieldMap, fs, k) ==
    IF k > Len(fs) THEN res
    ELSE FilterLoop(FilterStep(res, fieldMap, fs[k]), fieldMap, fs, k + 1)

\* variant: the loop starts at the second requested name
FilterFields_FromSecond(i, fs) ==
    FilterLoop([ip |-> i.IP, attribution |-> i.Attribution], FieldMap(i), fs, 2)

\* variant: an empty request returns every field
FilterFields_EmptyMeansAll(i, fs) ==
    IF Len(fs) = 0
    THEN FilterLoop([ip |-> i.IP, attribution |-> i.Attribution], FieldMap(i),
                    <<"hostname", "country", "iso_code", "in_eu", "city",
                      "region", "latitude", "longitude", "timezone", "asn",
                      "organization">>, 1)
    ELSE FilterLoop([ip |-> i.IP, attribution |-> i.Attribution], FieldMap(i),
                    fs, 1)

\* func (info *IPInfo) FilterFields(fields []string) map[string]interface{}
FilterFields(i, fs) ==
    FilterLoop([ip |-> i.IP, attribution |-> i.Attribution], FieldMap(i), fs, 1)

\* strings.ToLower on the names used as requests
ToLower(name) ==
    CASE name = "COUNTRY" -> "country"
      [] name = "Country" -> "country"
      [] name = "CiTy" -> "city"
      [] name = "ASN" -> "asn"
      [] name = "Bogus" -> "bogus"
      [] OTHER -> name

(***************************************************************************)
(* FilterFields on its own: any record, any request list                   *)
(***************************************************************************)
\* the names a request list is drawn from: the recognized keys, other
\* casings of them, the two fixed keys and unknown names
FieldNames ==
    {"hostname", "country", "iso_code", "in_eu", "city", "region", "latitude",
     "longitude", "timezone", "asn", "organization",
     "COUNTRY", "bogus", "ip"}

FieldLists == UNION {[1..n -> FieldNames] : n \in 0..MaxFields}

\* the record of TestIPInfoFilterFields
TestRecord ==
    [IP |-> "8.8.8.8", Hostname |-> <<>>, Country |-> "United States",
     ISOCode |-> "US", InEU |-> FALSE, City |-> "Mountain View",
     Region |-> "California", Latitude |-> <<37>>, Longitude |-> <<-122>>,
     Timezone |-> "America/Los_Angeles", ASN |-> <<15169>>,
     Organization |-> "Google LLC", Attribution |-> Attribution]

\* IPInfo values a caller may hold: fields set and unset independently
Records ==
    {ZeroInfo, TestRecord} \cup
    { [TestRecord EXCEPT !.Hostname = h, !.Country = c, !.InEU = e,
                         !.Latitude = lat]
        : h \in {<<>>, <<"d", "n", "s">>}, c \in {"", "Germany"},
          e \in BOOLEAN, lat \in {<<>>, <<0>>} }

\* variant: the projection consumes the field it copies first
FilterFieldsCall_ClearsRecord(fs) ==
    /\ ppc = "ready"
    /\ fields' = fs
    /\ result' = FilterFields(rec, fs)
    /\ rec' = IF Len(fs) > 0 /\ fs[1] = "country"
              THEN [rec EXCEPT !.Country = ""] ELSE rec
    /\ ppc' = "done"
    /\ UNCHANGED readerVars
    /\ UNCHANGED otherVars

\* result := info.FilterFields(fields)
FilterFieldsCall(fs) ==
    /\ ppc = "ready"
    /\ fields' = fs
    /\ result' = FilterFields(rec, fs)
    /\ ppc' = "done"
    /\ UNCHANGED rec
    /\ UNCHANGED readerVars
    /\ UNCHANGED otherVars

\* the caller drops the map and may project the same record again
ProjectAgain ==
    /\ ppc = "done"
    /\ fields' = <<>>
    /\ result' = <<>>
    /\ ppc' = "ready"
    /\ UNCHANGED rec
    /\ UNCHANGED readerVars
    /\ UNCHANGED otherVars

InitProject ==
    /\ InitReader
    /\ enableOnlineFeatures = FALSE
    /\ rec \in Records
    /\ fields = <<>>
    /\ result = <<>>
    /\ ppc = "ready"
    /\ InitNoMain
    /\ InitNoHTTP

NextProject ==
    \/ \E fs \in FieldLists : FilterFieldsCall(fs)
    \/ ProjectAgain

SpecProject == InitProject /\ [][NextProject]_vars

(***************************************************************************)
(* A caller that looks an address up and projects the record it got        *)
(***************************************************************************)
Caller == 1

\* info, err := reader.Lookup(ip) returned; the caller holds info
CallerTake ==
    /\ pc[Caller] = "done"
    /\ ppc = "none"
    /\ rec' = info[Caller]
    /\ ppc' = "ready"
    /\ UNCHANGED <<fields, result>>
    /\ UNCHANGED readerVars
    /\ UNCHANGED otherVars

\* the caller is done with the record and the map
CallerDone ==
    /\ ppc = "done"
    /\ rec' = ZeroInfo
    /\ fields' = <<>>
    /\ result' = <<>>
    /\ ppc' = "none"
    /\ UNCHANGED readerVars
    /\ UNCHANGED otherVars

NextCaller ==
    \/ \E ip \in IPs : ppc = "none" /\ LookupCall(Caller, ip)
    \/ LookupRLock(Caller)
    \/ LookupCity(Caller)
    \/ LookupASN(Caller)
    \/ \E d \in DNSOutcomes : LookupHostname(Caller, d)
    \/ LookupReturn(Caller)
    \/ CallerTake
    \/ \E fs \in FieldLists : FilterFieldsCall(fs)
    \/ CallerDone

SpecCaller == Init /\ [][NextCaller]_vars

(***************************************************************************)
(* Strings of the HTTP boundary.  A request string is a sequence of        *)
(* one-character strings, so that parsing, trimming and splitting are      *)
(* computed.                                                              *)
(***************************************************************************)
Digits == {"0", "1", "2", "3", "4", "5", "6", "7", "8", "9"}

DigitValue(ch) ==
    CASE ch = "0" -> 0 [] ch = "1" -> 1 [] ch = "2" -> 2 [] ch = "3" -> 3
      [] ch = "4" -> 4 [] ch = "5" -> 5 [] ch = "6" -> 6 [] ch = "7" -> 7
      [] ch = "8" -> 8 [] ch = "9" -> 9

RECURSIVE Dtoi(_, _, _)
\* dtoi of package net: the leading decimal digits of s, read from index k
Dtoi(s, k, n) ==
    IF k <= Len(s) /\ s[k] \in Digits
    THEN Dtoi(s, k + 1, n * 10 + DigitValue(s[k]))
    ELSE [n |-> n, c |-> k - 1, ok |-> k > 1]

RECURSIVE ParseIPv4(_, _, _)
\* parseIPv4 of package net: four decimal octets separated by ".", each at
\* most 255 and without a leading zero; <<>> is the nil IP
ParseIPv4(s, i, p) ==
    IF i = 4 THEN (IF Len(s) = 0 THEN p ELSE <<>>)
    ELSE IF Len(s) = 0 THEN <<>>
    ELSE IF i > 0 /\ s[1] # "." THEN <<>>
    ELSE LET t == IF i > 0 THEN Tail(s) ELSE s
             d == Dtoi(t, 1, 0)
         IN IF ~d.ok \/ d.n > 255 THEN <<>>
            ELSE IF d.c > 1 /\ t[1] = "0" THEN <<>>
            ELSE ParseIPv4(SubSeq(t, d.c + 1, Len(t)), i + 1, Append(p, d.n))

\* index of the first character of s that is in set, 0 if there is none
FirstIndexOf(s, set) ==
    IF \E k \in DOMAIN s : s[k] \in set
    THEN CHOOSE k \in DOMAIN s :
            s[k] \in set /\ \A j \in 1..(k - 1) : s[j] \notin set
    ELSE 0

\* index of the last character of s that is in set, 0 if there is none
LastIndexOf(s, set) ==
    IF \E k \in DOMAIN s : s[k] \in set
    THEN CHOOSE k \in DOMAIN s :
            s[k] \in set /\ \A j \in (k + 1)..Len(s) : s[j] \notin set
    ELSE 0

HexDigits ==
    Digits \cup {"a", "b", "c", "d", "e", "f", "A", "B", "C", "D", "E", "F"}

HexValue(ch) ==
    CASE ch \in Digits -> DigitValue(ch)
      [] ch \in {"a", "A"} -> 10 [] ch \in {"b", "B"} -> 11
      [] ch \in {"c", "C"} -> 12 [] ch \in {"d", "D"} -> 13
      [] ch \in {"e", "E"} -> 14 [] ch \in {"f", "F"} -> 15

RECURSIVE Xtoi(_, _, _)
\* xtoi of package net: the leading hexadecimal digits of s, from index k
Xtoi(s, k, n) ==
    IF k <= Len(s) /\ s[k] \in HexDigits
    THEN Xtoi(s, k + 1, n * 16 + HexValue(s[k]))
    ELSE [n |-> n, c |-> k - 1, ok |-> k > 1]

\* the end of parseIPv6: nothing may be left over; fewer than eight groups
\* need an ellipsis, which is filled with zero groups, eight allow none
ParseIPv6End(s, g, ellipsis) ==
    IF Len(s) # 0 THEN <<>>
    ELSE IF Len(g) < 8
         THEN IF ellipsis < 0 THEN <<>>
              ELSE SubSeq(g, 1, ellipsis)
                       \o [k \in 1..(8 - Len(g)) |-> 0]
                       \o SubSeq(g, ellipsis + 1, Len(g))
         ELSE IF ellipsis >= 0 THEN <<>> ELSE g

RECURSIVE ParseIPv6Loop(_, _, _)
\* the loop of parseIPv6 over 16-bit groups; g holds the groups read,
\* ellipsis the number of groups before "::" or -1
ParseIPv6Loop(s, g, ellipsis) ==
    IF Len(g) >= 8 THEN ParseIPv6End(s, g, ellipsis)
    ELSE LET x == Xtoi(s, 1, 0)
         IN IF ~x.ok \/ x.n > 65535 THEN <<>>
            ELSE IF x.c < Len(s) /\ s[x.c + 1] = "."
            THEN IF ellipsis < 0 /\ Len(g) # 6 THEN <<>>
                 ELSE IF Len(g) + 2 > 8 THEN <<>>
                 ELSE LET ip4 == ParseIPv4(s, 0, <<>>)
                      IN IF ip4 = <<>> THEN <<>>
                         ELSE ParseIPv6End(<<>>,
                                  g \o <<ip4[1] * 256 + ip4[2],
                                         ip4[3] * 256 + ip4[4]>>, ellipsis)
            ELSE LET g2 == Append(g, x.n)
                     s2 == SubSeq(s, x.c + 1, Len(s))
                 IN IF Len(s2) = 0 THEN ParseIPv6End(<<>>, g2, ellipsis)
                    ELSE IF s2[1] # ":" \/ Len(s2) = 1 THEN <<>>
                    ELSE IF s2[2] = ":"
                    THEN IF ellipsis >= 0 THEN <<>>
                         ELSE IF Len(s2) = 2
                              THEN ParseIPv6End(<<>>, g2, Len(g2))
                              ELSE ParseIPv6Loop(SubSeq(s2, 3, Len(s2)), g2,
                                                 Len(g2))
                    ELSE ParseIPv6Loop(Tail(s2), g2, ellipsis)

\* parseIPv6 of package net: eight 16-bit groups, <<>> is the nil IP
ParseIPv6(s) ==
    IF Len(s) >= 2 /\ s[1] = ":" /\ s[2] = ":"
    THEN IF Len(s) = 2 THEN [k \in 1..8 |-> 0]
         ELSE ParseIPv6Loop(SubSeq(s, 3, Len(s)), <<>>, 0)
    ELSE ParseIPv6Loop(s, <<>>, -1)

\* ip.To4() on the groups of an address: the four octets of an
\* IPv4-mapped address, else the groups
To4Form(g) ==
    IF g # <<>> /\ (\A k \in 1..5 : g[k] = 0) /\ g[6] = 65535
    THEN <<g[7] \div 256, g[7] % 256, g[8] \div 256, g[8] % 256>>
    ELSE g

\* net.ParseIP: the first "." or ":" decides the family; a string with
\* neither is no address.  The address is kept in its four-octet form when
\* it has one, as String, the dataset queries and LookupAddr take it.
ParseIP(s) ==
    LET k == FirstIndexOf(s, {".", ":"})
    IN IF k = 0 THEN <<>>
       ELSE IF s[k] = "." THEN ParseIPv4(s, 0, <<>>)
       ELSE To4Form(ParseIPv6(s))

RECURSIVE TrimLeft(_)
TrimLeft(s) == IF s # <<>> /\ Head(s) = " " THEN TrimLeft(Tail(s)) ELSE s

RECURSIVE TrimRight(_)
TrimRight(s) ==
    IF s # <<>> /\ s[Len(s)] = " " THEN TrimRight(SubSeq(s, 1, Len(s) - 1)) ELSE s

\* strings.TrimSpace; the space is the only white space of the model
TrimSpace(s) == TrimRight(TrimLeft(s))

\* strings.Split(s, ",")[0]
SplitFirst(s) ==
    LET k == FirstIndexOf(s, {","})
    IN IF k = 0 THEN s ELSE SubSeq(s, 1, k - 1)

\* net.SplitHostPort for a string without brackets: the host before the
\* last ":", an error when there is no ":" or the host holds another one
SplitHostPort(hostport) ==
    LET i == LastIndexOf(hostport, {":"})
        host == SubSeq(hostport, 1, i - 1)
    IN IF i = 0 THEN [host |-> <<>>, err |-> TRUE]
       ELSE IF FirstIndexOf(host, {":"}) # 0 THEN [host |-> <<>>, err |-> TRUE]
       ELSE [host |-> host, err |-> FALSE]

\* the strings requests are made of
StrEmpty == <<>>
StrGoogle == <<"8", ".", "8", ".", "8", ".", "8">>
StrPrivate == <<"1", "0", ".", "0", ".", "0", ".", "1">>
StrCityOnly == <<"1", ".", "1", ".", "1", ".", "1">>
StrAsnOnly == <<"9", ".", "9", ".", "9", ".", "9">>
StrLoopback == <<"1", "2", "7", ".", "0", ".", "0", ".", "1">>
StrInvalid == <<"x">>
StrTooBig == <<"2", "5", "6", ".", "1", ".", "1", ".", "1">>
StrLeadingZero == <<"0", "8", ".", "8", ".", "8", ".", "8">>
StrShort == <<"1", ".", "2", ".", "3">>
StrXFFTwo == <<"1", "0", ".", "0", ".", "0", ".", "1", ",", " ", "9", ".", "9", ".", "9", ".", "9">>
StrXFFSpaced == <<" ", "1", ".", "1", ".", "1", ".", "1", " ", ",", "8", ".", "8", ".", "8", ".", "8">>
StrXFFBadFirst == <<"x", ",", " ", "1", "0", ".", "0", ".", "0", ".", "1">>
StrXFFEmptyFirst == <<",", "8", ".", "8", ".", "8", ".", "8">>
StrXRISpaced == <<" ", "9", ".", "9", ".", "9", ".", "9">>
StrRemote == <<"1", "2", "7", ".", "0", ".", "0", ".", "1", ":", "8", "0">>
StrRemoteGoogle == <<"8", ".", "8", ".", "8", ".", "8", ":", "8", "0">>
StrRemoteColons == <<"1", ":", "2", ":", "3">>
StrV6Upper == <<"2", "0", "0", "1", ":", "D", "B", "8", ":", ":", "1">>
StrV6Mapped == <<":", ":", "f", "f", "f", "f", ":", "8", ".", "8", ".", "8", ".", "8">>
StrV6Long == <<"0", ":", "0", ":", "0", ":", "0", ":", "0", ":", "0", ":", "0", ":", "1">>
StrV6TwoEllipses == <<"1", ":", ":", "2", ":", ":", "3">>

(***************************************************************************)
(* getClientIP                                                             *)
(***************************************************************************)
\* variant: X-Real-IP is consulted before X-Forwarded-For
getClientIP_RealIPFirst(r) ==
    LET ip == TrimSpace(SplitFirst(r.xff))
        sp == SplitHostPort(r.remoteAddr)
    IN IF r.xri # <<>> /\ ParseIP(r.xri) # <<>> THEN r.xri
       ELSE IF r.xff # <<>> /\ ParseIP(ip) # <<>> THEN ip
       ELSE IF sp.err THEN r.remoteAddr
       ELSE sp.host

\* func getClientIP(r *http.Request) string
getClientIP(r) ==
    LET ip == TrimSpace(SplitFirst(r.xff))
        sp == SplitHostPort(r.remoteAddr)
    IN IF r.xff # <<>> /\ ParseIP(ip) # <<>> THEN ip
       ELSE IF r.xri # <<>> /\ ParseIP(r.xri) # <<>> THEN r.xri
       ELSE IF sp.err THEN r.remoteAddr
       ELSE sp.host

\* values of the X-Forwarded-For header (empty: not set)
XFFValues ==
    {StrEmpty, StrPrivate, StrXFFTwo, StrXFFSpaced, StrXFFBadFirst,
     StrXFFEmptyFirst, StrTooBig}

\* values of the X-Real-IP header (empty: not set)
XRIValues == {StrEmpty, StrAsnOnly, StrInvalid, StrXRISpaced}

\* values of RemoteAddr
RemoteAddrs == {StrRemote, StrRemoteGoogle, StrLoopback, StrRemoteColons}

\* requests whose client address is asked for
ClientIPRequests ==
    [route : {"/api/ip"}, ip : {StrEmpty}, return : {<<>>}, xff : XFFValues,
     xri : XRIValues, remoteAddr : RemoteAddrs]

\* result := getClientIP(req)
GetClientIPCall ==
    /\ hpc = "start"
    /\ hloc' = [hloc EXCEPT !.ipStr = getClientIP(req)]
    /\ hpc' = "got"
    /\ UNCHANGED <<geoReader, req, resp>>
    /\ UNCHANGED mainVars
    /\ UNCHANGED readerVars
    /\ UNCHANGED projectVars

\* the caller asks again
GetClientIPAgain ==
    /\ hpc = "got"
    /\ hloc' = [hloc EXCEPT !.ipStr = <<>>]
    /\ hpc' = "start"
    /\ UNCHANGED <<geoReader, req, resp>>
    /\ UNCHANGED mainVars
    /\ UNCHANGED readerVars
    /\ UNCHANGED projectVars

InitClientIP ==
    /\ InitReader
    /\ enableOnlineFeatures = FALSE
    /\ InitNoProject
    /\ InitNoMain
    /\ geoReader = "reader"
    /\ req \in ClientIPRequests
    /\ hpc = "start"
    /\ hloc = [ipStr |-> <<>>, ip |-> <<>>, called |-> FALSE]
    /\ resp = [status |-> 0, body |-> <<>>]

NextClientIP ==
    \/ GetClientIPCall
    \/ GetClientIPAgain

SpecClientIP == InitClientIP /\ [][NextClientIP]_vars

(***************************************************************************)
(* JSON as encoding/json writes it: an object is a function from its keys  *)
(* to tagged values                                                        *)
(***************************************************************************)
JNull == [t |-> "null"]
JString(str) == [t |-> "string", v |-> str]
JNumber(n) == [t |-> "number", v |-> n]
JBool(b) == [t |-> "bool", v |-> b]
JObject(m) == [t |-> "object", v |-> m]

RECURSIVE StringOf(_)
\* the string whose characters are the elements of s
StringOf(s) == IF s = <<>> THEN "" ELSE Head(s) \o StringOf(Tail(s))

\* the keys of IPInfo whose Go type is a pointer (to float64, to uint)
PointerKeys == {"latitude", "longitude", "asn"}

\* the JSON value of the Go value v held under key k of IPInfo or of the
\* map FilterFields builds: a nil pointer in an interface{} is null
JSONOfField(k, v) ==
    CASE k \in PointerKeys -> (IF v = <<>> THEN JNull ELSE JNumber(v[1]))
      [] k = "in_eu" -> JBool(v)
      [] k = "hostname" -> JString(StringOf(v))
      [] OTHER -> JString(v)

\* json encoding of a map[string]interface{}: every key of the map
MarshalMap(m) == [k \in DOMAIN m |-> JSONOfField(k, m[k])]

\* the omitempty test of encoding/json on the field under key k
IsEmptyValue(k, v) ==
    CASE k \in PointerKeys -> v = <<>>
      [] k = "in_eu" -> v = FALSE
      [] k = "hostname" -> v = <<>>
      [] OTHER -> v = ""

\* variant: the struct is encoded without omitempty
MarshalIPInfo_NoOmitEmpty(i) ==
    LET all == FieldMap(i)
    IN [k \in DOMAIN all \cup {"ip", "attribution"} |->
          CASE k = "ip" -> JString(i.IP)
            [] k = "attribution" -> JString(i.Attribution)
            [] OTHER -> JSONOfField(k, all[k])]

\* json encoding of *IPInfo by its struct tags: ip and attribution always,
\* every other field unless it is empty (omitempty)
MarshalIPInfo(i) ==
    LET all == FieldMap(i)
        keys == {k \in DOMAIN all : ~IsEmptyValue(k, all[k])}
    IN [k \in keys \cup {"ip", "attribution"} |->
          CASE k = "ip" -> JString(i.IP)
            [] k = "attribution" -> JString(i.Attribution)
            [] OTHER -> JSONOfField(k, all[k])]

\* json encoding of ErrorResponse
MarshalError(message) ==
    [error |-> JString(message), attribution |-> JString(Attribution)]

(***************************************************************************)
(* The HTTP handlers                                                       *)
(***************************************************************************)
\* writeJSON(w, status, data), data already encoded
writeJSON(status, data) == [status |-> status, body |-> data]

\* func writeError(w http.ResponseWriter, status int, message string)
writeError(status, message) == writeJSON(status, MarshalError(message))

\* variant: the names are passed on as given
NormalizeFields_AsGiven(fs) == fs

\* normalizedFields[i] = strings.ToLower(f)
NormalizeFields(fs) == [k \in DOMAIN fs |-> ToLower(fs[k])]

\* values of the ip query parameter (empty: not given)
IPParams ==
    {StrEmpty, StrGoogle, StrPrivate, StrCityOnly, StrInvalid, StrTooBig,
     StrLeadingZero, StrShort, StrV6Upper, StrV6Mapped, StrV6TwoEllipses}

\* values of the repeated return query parameter
ReturnLists ==
    {<<>>, <<"country", "city">>, <<"COUNTRY">>, <<"bogus">>, <<"city">>,
     <<"latitude", "asn">>, <<"hostname", "in_eu">>, <<"Country", "CiTy">>,
     <<"ASN", "Bogus">>}

\* GET /api/ip requests
IPRequests ==
    [route : {"/api/ip"}, ip : IPParams, return : ReturnLists,
     xff : {StrEmpty, StrXFFSpaced}, xri : {StrEmpty, StrInvalid},
     remoteAddr : {StrRemote, StrRemoteColons}]

\* GET requests of the other routes
OtherRequests ==
    [route : {"/health", "/api/features", "/api/debug"}, ip : {StrEmpty},
     return : {<<>>}, xff : {StrEmpty, StrXFFSpaced},
     xri : {StrEmpty, StrInvalid}, remoteAddr : {StrRemote, StrRemoteColons}]

NoRequest == [route |-> "none"]
NoLocals == [ipStr |-> <<>>, ip |-> <<>>, called |-> FALSE]
NoResponse == [status |-> 0, body |-> <<>>]

\* the router hands a request to its handler
HTTPRequest(r) ==
    /\ hpc = "none"
    /\ req' = r
    /\ hpc' = "start"
    /\ hloc' = NoLocals
    /\ resp' = NoResponse
    /\ UNCHANGED geoReader
    /\ UNCHANGED mainVars
    /\ UNCHANGED readerVars
    /\ UNCHANGED projectVars

\* variant: an ip parameter that is no address falls back to the client IP
IPStrOf_Fallback(r) ==
    IF r.ip = <<>> \/ ParseIP(r.ip) = <<>> THEN getClientIP(r) ELSE r.ip

\* ipStr := r.URL.Query().Get("ip"); if ipStr == "" { ipStr = getClientIP(r) }
IPStrOf(r) == IF r.ip = <<>> THEN getClientIP(r) ELSE r.ip

\* IPLookup: ip == nil, writeError(w, http.StatusBadRequest, ...); return
IPLookupInvalid ==
    /\ hpc = "start"
    /\ req.route = "/api/ip"
    /\ ParseIP(IPStrOf(req)) = <<>>
    /\ hloc' = [hloc EXCEPT !.ipStr = IPStrOf(req)]
    /\ resp' = writeError(400, "Invalid IP address")
    /\ hpc' = "done"
    /\ UNCHANGED <<geoReader, req>>
    /\ UNCHANGED mainVars
    /\ UNCHANGED readerVars
    /\ UNCHANGED projectVars

\* variant: Lookup is called on the request's address before it is checked
IPLookupCall_Unchecked ==
    /\ hpc = "start"
    /\ req.route = "/api/ip"
    /\ geoReader = "reader"
    /\ LookupEnter(Caller, ParseIP(IPStrOf(req)))
    /\ hloc' = [ipStr |-> IPStrOf(req), ip |-> ParseIP(IPStrOf(req)),
                called |-> TRUE]
    /\ hpc' = IF ParseIP(IPStrOf(req)) = <<>> THEN "start" ELSE "lookup"
    /\ UNCHANGED <<geoReader, req, resp>>
    /\ UNCHANGED mainVars
    /\ UNCHANGED projectVars

\* IPLookup: ip parsed, h.geoReader.Lookup(ip) is called on the Reader
IPLookupCall ==
    /\ hpc = "start"
    /\ req.route = "/api/ip"
    /\ geoReader = "reader"
    /\ ParseIP(IPStrOf(req)) # <<>>
    /\ LookupEnter(Caller, ParseIP(IPStrOf(req)))
    /\ hloc' = [ipStr |-> IPStrOf(req), ip |-> ParseIP(IPStrOf(req)),
                called |-> TRUE]
    /\ hpc' = "lookup"
    /\ UNCHANGED <<geoReader, req, resp>>
    /\ UNCHANGED mainVars
    /\ UNCHANGED projectVars

\* IPLookup: ip parsed, h.geoReader is another ReaderInterface whose
\* Lookup returns (nil, err)
IPLookupCallFailing ==
    /\ hpc = "start"
    /\ req.route = "/api/ip"
    /\ geoReader = "failing"
    /\ ParseIP(IPStrOf(req)) # <<>>
    /\ pc[Caller] \in {"idle", "done"}
    /\ pc' = [pc EXCEPT ![Caller] = "done"]
    /\ arg' = [arg EXCEPT ![Caller] = ParseIP(IPStrOf(req))]
    /\ city' = [city EXCEPT ![Caller] = NoQuery]
    /\ asn' = [asn EXCEPT ![Caller] = NoQuery]
    /\ info' = [info EXCEPT ![Caller] = ZeroInfo]
    /\ err' = [err EXCEPT ![Caller] = "lookup failed"]
    /\ hloc' = [ipStr |-> IPStrOf(req), ip |-> ParseIP(IPStrOf(req)),
                called |-> TRUE]
    /\ hpc' = "lookup"
    /\ UNCHANGED <<mu, enableOnlineFeatures>>
    /\ UNCHANGED closeVars
    /\ UNCHANGED <<geoReader, req, resp>>
    /\ UNCHANGED mainVars
    /\ UNCHANGED projectVars

\* variant: the error of Lookup is not tested, the record is written
IPLookupRespond_IgnoreErr ==
    /\ hpc = "lookup"
    /\ pc[Caller] = "done"
    /\ resp' = IF Len(req.return) > 0
               THEN writeJSON(200, MarshalMap(
                        FilterFields(info[Caller], NormalizeFields(req.return))))
               ELSE writeJSON(200, MarshalIPInfo(info[Caller]))
    /\ hpc' = "done"
    /\ UNCHANGED <<geoReader, req, hloc>>
    /\ UNCHANGED mainVars
    /\ UNCHANGED readerVars
    /\ UNCHANGED projectVars

\* IPLookup after Lookup returned: 500 on an error, else the projection
\* when return= was given, else the record
IPLookupRespond ==
    /\ hpc = "lookup"
    /\ pc[Caller] = "done"
    /\ resp' = IF err[Caller] # "nil"
               THEN writeError(500, "Failed to lookup IP")
               ELSE IF Len(req.return) > 0
               THEN writeJSON(200, MarshalMap(
                        FilterFields(info[Caller], NormalizeFields(req.return))))
               ELSE writeJSON(200, MarshalIPInfo(info[Caller]))
    /\ hpc' = "done"
    /\ UNCHANGED <<geoReader, req, hloc>>
    /\ UNCHANGED mainVars
    /\ UNCHANGED readerVars
    /\ UNCHANGED projectVars

\* func (h *Handler) Health
Health ==
    /\ hpc = "start"
    /\ req.route = "/health"
    /\ resp' = writeJSON(200, [status |-> JString("ok")])
    /\ hpc' = "done"
    /\ UNCHANGED <<geoReader, req, hloc>>
    /\ UNCHANGED mainVars
    /\ UNCHANGED readerVars
    /\ UNCHANGED projectVars

\* func (h *Handler) Features; main hands the handler the Reader's flag
Features ==
    /\ hpc = "start"
    /\ req.route = "/api/features"
    /\ resp' = writeJSON(200, [onlineFeatures |-> JBool(enableOnlineFeatures)])
    /\ hpc' = "done"
    /\ UNCHANGED <<geoReader, req, hloc>>
    /\ UNCHANGED mainVars
    /\ UNCHANGED readerVars
    /\ UNCHANGED projectVars

\* headers[name] = values[0] over the headers the request carries
DebugHeaders(r) ==
    LET names == {n \in {"X-Forwarded-For", "X-Real-Ip"} :
                    (IF n = "X-Forwarded-For" THEN r.xff ELSE r.xri) # <<>>}
    IN [n \in names |->
          JString(StringOf(IF n = "X-Forwarded-For" THEN r.xff ELSE r.xri))]

\* func (h *Handler) Debug; the request carries no header but the two of
\* the model, its Host is that of httptest.NewRequest
Debug ==
    /\ hpc = "start"
    /\ req.route = "/api/debug"
    /\ resp' = writeJSON(200,
         [remoteAddr |-> JString(StringOf(req.remoteAddr)),
          host |-> JString("example.com"),
          requestURI |-> JString(req.route),
          headers |-> JObject(DebugHeaders(req)),
          xForwardedFor |-> JString(StringOf(req.xff)),
          xRealIP |-> JString(StringOf(req.xri)),
          xAzureClientIP |-> JString(""),
          xOriginalHost |-> JString(""),
          xClientIP |-> JString(""),
          cfConnectingIP |-> JString(""),
          trueClientIP |-> JString(""),
          forwardedHeader |-> JString(""),
          detectedClientIP |-> JString(StringOf(getClientIP(req)))])
    /\ hpc' = "done"
    /\ UNCHANGED <<geoReader, req, hloc>>
    /\ UNCHANGED mainVars
    /\ UNCHANGED readerVars
    /\ UNCHANGED projectVars

\* the response is sent, the handler returned
HTTPDone ==
    /\ hpc = "done"
    /\ hpc' = "none"
    /\ req' = NoRequest
    /\ hloc' = NoLocals
    /\ resp' = NoResponse
    /\ UNCHANGED geoReader
    /\ UNCHANGED mainVars
    /\ UNCHANGED readerVars
    /\ UNCHANGED projectVars

\* a server whose handler holds a Reader, or another ReaderInterface
InitHTTP ==
    /\ InitReader
    /\ InitNoProject
    /\ InitNoMain
    /\ geoReader \in {"reader", "failing"}
    /\ req = NoRequest
    /\ hpc = "none"
    /\ hloc = NoLocals
    /\ resp = NoResponse

NextHTTP ==
    \/ \E r \in IPRequests \cup OtherRequests : HTTPRequest(r)
    \/ IPLookupInvalid
    \/ IPLookupCall
    \/ IPLookupCallFailing
    \/ LookupRLock(Caller)
    \/ LookupCity(Caller)
    \/ LookupASN(Caller)
    \/ \E d \in DNSOutcomes : LookupHostname(Caller, d)
    \/ LookupReturn(Caller)
    \/ IPLookupRespond
    \/ Health
    \/ Features
    \/ Debug
    \/ HTTPDone

SpecHTTP == InitHTTP /\ [][NextHTTP]_vars

(***************************************************************************)
(* main: NewReader, then the CLI lookup or the server                      *)
(***************************************************************************)
\* what the process finds: whether each database path resolves to a
\* non-empty string, whether geoip2.Open succeeds on each file, the online
\* flag and the positional arguments
Environments ==
    [cityPath : BOOLEAN, asnPath : BOOLEAN, cityFile : BOOLEAN,
     asnFile : BOOLEAN, online : BOOLEAN,
     args : {<<>>, <<StrGoogle>>, <<StrPrivate>>, <<StrInvalid>>}]

NoOutput == [exit |-> "none", stdout |-> <<>>]

\* if *cityDBPath == "" || *asnDBPath == "" { log.Fatal(...) }
MainResolvePaths ==
    /\ mpc = "start"
    /\ IF env.cityPath /\ env.asnPath
       THEN mpc' = "opencity" /\ out' = out
       ELSE mpc' = "exited" /\ out' = [out EXCEPT !.exit = "fatal"]
    /\ UNCHANGED <<env, nerr>>
    /\ UNCHANGED httpVars
    /\ UNCHANGED readerVars
    /\ UNCHANGED projectVars

\* NewReader: cityDB, err := geoip2.Open(cityDBPath); on an error return
\* nil and the city error
NewReaderOpenCity ==
    /\ mpc = "opencity"
    /\ IF env.cityFile
       THEN cityOpen' = TRUE /\ nerr' = nerr /\ mpc' = "openasn"
       ELSE /\ cityOpen' = cityOpen
            /\ nerr' = "failed to open city database"
            /\ mpc' = "returned"
    /\ UNCHANGED <<env, out>>
    /\ UNCHANGED httpVars
    /\ UNCHANGED <<asnOpen, enableOnlineFeatures, mu, cpc>>
    /\ UNCHANGED lookupVars
    /\ UNCHANGED projectVars

\* variant: the city handle is not closed when the ASN file fails to open
NewReaderOpenASN_LeakCity ==
    /\ mpc = "openasn"
    /\ IF env.asnFile
       THEN /\ asnOpen' = TRUE
            /\ enableOnlineFeatures' = env.online
            /\ geoReader' = "reader"
            /\ nerr' = "nil"
       ELSE /\ asnOpen' = asnOpen
            /\ enableOnlineFeatures' = enableOnlineFeatures
            /\ geoReader' = geoReader
            /\ nerr' = "failed to open ASN database"
    /\ mpc' = "returned"
    /\ UNCHANGED <<env, out>>
    /\ UNCHANGED <<req, hpc, hloc, resp>>
    /\ UNCHANGED <<cityOpen, mu, cpc>>
    /\ UNCHANGED lookupVars
    /\ UNCHANGED projectVars

\* NewReader: asnDB, err := geoip2.Open(asnDBPath); on an error close the
\* city handle and return nil and the ASN error; else return the Reader
NewReaderOpenASN ==
    /\ mpc = "openasn"
    /\ IF env.asnFile
       THEN /\ asnOpen' = TRUE
            /\ cityOpen' = cityOpen
            /\ enableOnlineFeatures' = env.online
            /\ geoReader' = "reader"
            /\ nerr' = "nil"
       ELSE /\ asnOpen' = asnOpen
            /\ cityOpen' = FALSE
            /\ enableOnlineFeatures' = enableOnlineFeatures
            /\ geoReader' = geoReader
            /\ nerr' = "failed to open ASN database"
    /\ mpc' = "returned"
    /\ UNCHANGED <<env, out>>
    /\ UNCHANGED <<req, hpc, hloc, resp>>
    /\ UNCHANGED <<mu, cpc>>
    /\ UNCHANGED lookupVars
    /\ UNCHANGED projectVars

\* variant: the error of NewReader is not tested
MainCheckReader_IgnoreErr ==
    /\ mpc = "returned"
    /\ mpc' = IF Len(env.args) > 0 THEN "cli" ELSE "serving"
    /\ UNCHANGED <<env, nerr, out>>
    /\ UNCHANGED httpVars
    /\ UNCHANGED readerVars
    /\ UNCHANGED projectVars

\* main after NewReader: on an error os.Exit(1) in CLI mode, log.Fatalf
\* otherwise; else defer geoReader.Close() and go on to runCLI or to the
\* router
MainCheckReader ==
    /\ mpc = "returned"
    /\ IF nerr # "nil"
       THEN /\ mpc' = "exited"
            /\ out' = [out EXCEPT !.exit =
                          IF Len(env.args) > 0 THEN "exit1" ELSE "fatal"]
       ELSE /\ mpc' = IF Len(env.args) > 0 THEN "cli" ELSE "serving"
            /\ out' = out
    /\ UNCHANGED <<env, nerr>>
    /\ UNCHANGED httpVars
    /\ UNCHANGED readerVars
    /\ UNCHANGED projectVars

\* runCLI: ip == nil, os.Exit(1); the deferred Close does not run
RunCLIInvalid ==
    /\ mpc = "cli"
    /\ ParseIP(env.args[1]) = <<>>
    /\ mpc' = "exited"
    /\ out' = [out EXCEPT !.exit = "exit1"]
    /\ UNCHANGED <<env, nerr>>
    /\ UNCHANGED httpVars
    /\ UNCHANGED readerVars
    /\ UNCHANGED projectVars

\* runCLI: info, err := geoReader.Lookup(ip) is called
RunCLILookup ==
    /\ mpc = "cli"
    /\ ParseIP(env.args[1]) # <<>>
    /\ LookupEnter(Caller, ParseIP(env.args[1]))
    /\ mpc' = "lookup"
    /\ UNCHANGED <<env, nerr, out>>
    /\ UNCHANGED httpVars
    /\ UNCHANGED projectVars

\* runCLI after Lookup: os.Exit(1) on an error, else the indented JSON of
\* the record is printed and runCLI returns
RunCLIPrint ==
    /\ mpc = "lookup"
    /\ pc[Caller] = "done"
    /\ IF err[Caller] # "nil"
       THEN mpc' = "exited" /\ out' = [out EXCEPT !.exit = "exit1"]
       ELSE /\ mpc' = "deferred"
            /\ out' = [out EXCEPT !.stdout = MarshalIPInfo(info[Caller])]
    /\ UNCHANGED <<env, nerr>>
    /\ UNCHANGED httpVars
    /\ UNCHANGED readerVars
    /\ UNCHANGED projectVars

\* main returns after the deferred geoReader.Close() has returned
MainReturn ==
    /\ mpc = "deferred"
    /\ cpc = "done"
    /\ mpc' = "exited"
    /\ out' = [out EXCEPT !.exit = "exit0"]
    /\ UNCHANGED <<env, nerr>>
    /\ UNCHANGED httpVars
    /\ UNCHANGED readerVars
    /\ UNCHANGED projectVars

\* the process starts: no handle is open, no Reader exists
InitMain ==
    /\ cityOpen = FALSE
    /\ asnOpen = FALSE
    /\ enableOnlineFeatures = FALSE
    /\ mu = NewRWMutex
    /\ pc = [p \in Procs |-> "idle"]
    /\ arg = [p \in Procs |-> IPNone]
    /\ city = [p \in Procs |-> NoQuery]
    /\ asn = [p \in Procs |-> NoQuery]
    /\ info = [p \in Procs |-> ZeroInfo]
    /\ err = [p \in Procs |-> "none"]
    /\ cpc = "idle"
    /\ InitNoProject
    /\ env \in Environments
    /\ mpc = "start"
    /\ nerr = "none"
    /\ out = NoOutput
    /\ geoReader = "nil"
    /\ req = NoRequest
    /\ hpc = "none"
    /\ hloc = NoLocals
    /\ resp = NoResponse

NextMain ==
    \/ MainResolvePaths
    \/ NewReaderOpenCity
    \/ NewReaderOpenASN
    \/ MainCheckReader
    \/ RunCLIInvalid
    \/ RunCLILookup
    \/ LookupRLock(Caller)
    \/ LookupCity(Caller)
    \/ LookupASN(Caller)
    \/ \E d \in DNSOutcomes : LookupHostname(Caller, d)
    \/ LookupReturn(Caller)
    \/ RunCLIPrint
    \/ mpc = "deferred" /\ CloseCall
    \/ CloseLock
    \/ CloseCity
    \/ CloseASN
    \/ CloseReturn
    \/ MainReturn
    \/ \E r \in IPRequests \cup OtherRequests : mpc = "serving" /\ HTTPRequest(r)
    \/ IPLookupInvalid
    \/ IPLookupCall
    \/ IPLookupRespond
    \/ Health
    \/ Features
    \/ Debug
    \/ HTTPDone

SpecMain == InitMain /\ [][NextMain]_vars

\* the steps of main up to the CLI lookup or the router
MainStartup ==
    \/ MainResolvePaths
    \/ NewReaderOpenCity
    \/ NewReaderOpenASN
    \/ MainCheckReader

\* main is a running goroutine: its startup code does not stop half way
SpecMainLive == SpecMain /\ WF_vars(MainStartup)

(***************************************************************************)
(* Properties                                                              *)
(***************************************************************************)
\* the 11 recognized field keys of a projection
RecognizedKeys ==
    {"hostname", "country", "iso_code", "in_eu", "city", "region", "latitude",
     "longitude", "timezone", "asn", "organization"}

\* the record's value under a JSON field name
ValueOf(r, k) ==
    CASE k = "ip" -> r.IP
      [] k = "hostname" -> r.Hostname
      [] k = "country" -> r.Country
      [] k = "iso_code" -> r.ISOCode
      [] k = "in_eu" -> r.InEU
      [] k = "city" -> r.City
      [] k = "region" -> r.Region
      [] k = "latitude" -> r.Latitude
      [] k = "longitude" -> r.Longitude
      [] k = "timezone" -> r.Timezone
      [] k = "asn" -> r.ASN
      [] k = "organization" -> r.Organization
      [] k = "attribution" -> r.Attribution

Requested(fs) == {fs[k] : k \in DOMAIN fs}

\* C1: FilterFields returns a map whose keys are exactly ip, attribution and
\* the requested names that are recognized keys, each key holding the
\* record's current value, empty and absent values included.
C1_KeysAndValues ==
    ppc = "done" =>
        /\ DOMAIN result =
              {"ip", "attribution"} \cup (Requested(fields) \cap RecognizedKeys)
        /\ \A k \in DOMAIN result : result[k] = ValueOf(rec, k)

\* C1 witness: a projection that asked for an absent coordinate, an empty
\* string field and an unknown name.
C1_Witness ==
    /\ ppc = "done"
    /\ rec.Latitude = <<>>
    /\ rec.Country = ""
    /\ fields = <<"latitude", "country">>
    /\ DOMAIN result = {"ip", "attribution", "latitude", "country"}

\* C2: projecting with an empty request list yields exactly the two keys ip
\* and attribution.
C2_EmptyRequest ==
    (ppc = "done" /\ fields = <<>>) =>
        result = [ip |-> rec.IP, attribution |-> rec.Attribution]

\* C2 witness: the empty request was applied to a record with data in it.
C2_Witness ==
    /\ ppc = "done"
    /\ fields = <<>>
    /\ rec = TestRecord

\* requested names in lower case
LowerAll(fs) == [k \in DOMAIN fs |-> ToLower(fs[k])]

\* C4: projection is case-insensitive in the requested names: the map for a
\* request equals the map for the same request written in lower case.
C4_CaseInsensitive ==
    ppc = "done" => result = FilterFields(rec, LowerAll(fields))

IsRecognized(name) == name \in RecognizedKeys

\* C5: unrecognized requested names are no-ops: the map for a request equals
\* the map for the request with its unrecognized names removed.
C5_UnrecognizedIgnored ==
    ppc = "done" => result = FilterFields(rec, SelectSeq(fields, IsRecognized))

\* C5 witness: the request ["bogus", "country"] was projected and gave what
\* ["country"] gives.
C5_Witness ==
    /\ ppc = "done"
    /\ fields = <<"bogus", "country">>
    /\ rec.Country # ""
    /\ DOMAIN result = {"ip", "attribution", "country"}

\* C3: every record Lookup returns has ip = the text of the queried address
\* and the fixed attribution, and every projection of it carries both keys
\* with these values.
C3_IPAndAttributionPresent ==
    /\ pc[Caller] = "done" =>
          /\ info[Caller].IP = IPString(arg[Caller])
          /\ info[Caller].Attribution = "IP Geolocation by DB-IP (https://db-ip.com)"
    /\ ppc = "done" =>
          /\ {"ip", "attribution"} \subseteq DOMAIN result
          /\ result["ip"] = IPString(arg[Caller])
          /\ result["attribution"] = "IP Geolocation by DB-IP (https://db-ip.com)"

\* C3 witness: an address no dataset matched was looked up and projected on
\* a requested field.
C3_Witness ==
    /\ ppc = "done"
    /\ city[Caller].err
    /\ asn[Caller].err
    /\ fields = <<"country">>
    /\ result["ip"] = "10.0.0.1"

\* the record with nothing but ip and attribution set, for the address ip
OnlyIPAndAttribution(ip) ==
    [IP |-> IPString(ip), Hostname |-> <<>>, Country |-> "", ISOCode |-> "",
     InEU |-> FALSE, City |-> "", Region |-> "", Latitude |-> <<>>,
     Longitude |-> <<>>, Timezone |-> "", ASN |-> <<>>, Organization |-> "",
     Attribution |-> "IP Geolocation by DB-IP (https://db-ip.com)"]

\* p's Lookup has returned
Returned(p) == pc[p] = "done"

\* C6, as stated: for an address neither dataset matches, Lookup returns no
\* error and a record in which only ip and attribution are set.
C6_NoMatchOnlyIPAndAttribution ==
    \A p \in Procs :
        (Returned(p) /\ city[p].err /\ asn[p].err) =>
            /\ err[p] = "nil"
            /\ info[p] = OnlyIPAndAttribution(arg[p])

\* C6, amended: for an address neither dataset matches, Lookup returns no
\* error and a record in which only ip and attribution are set, and
\* hostname when reverse DNS is enabled; every other field is zero.
C6_NoMatchUpToHostname ==
    \A p \in Procs :
        (Returned(p) /\ city[p].err /\ asn[p].err) =>
            /\ err[p] = "nil"
            /\ [info[p] EXCEPT !.Hostname = <<>>] = OnlyIPAndAttribution(arg[p])
            /\ info[p].Hostname # <<>> => enableOnlineFeatures

\* C6 witness: with both handles open, an address without a match in either
\* dataset was looked up and came back with a hostname.
C6_Witness ==
    \E p \in Procs :
        /\ Returned(p)
        /\ cityOpen /\ asnOpen
        /\ city[p].err /\ asn[p].err
        /\ info[p].Hostname = <<"d", "n", "s">>

\* the location fields of i hold what the matched city record c holds
LocationFrom(i, c) ==
    /\ i.Country = c.CountryName
    /\ i.ISOCode = c.CountryIsoCode
    /\ i.InEU = c.IsInEuropeanUnion
    /\ i.City = c.CityName
    /\ i.Region = (IF c.Subdivisions = <<>> THEN "" ELSE Head(c.Subdivisions))
    /\ i.Timezone = c.TimeZone
    /\ (c.Latitude = 0 /\ c.Longitude = 0) =>
          (i.Latitude = <<>> /\ i.Longitude = <<>>)
    /\ ~(c.Latitude = 0 /\ c.Longitude = 0) =>
          (i.Latitude = <<c.Latitude>> /\ i.Longitude = <<c.Longitude>>)

\* every location field of i is absent
LocationAbsent(i) ==
    /\ i.Country = "" /\ i.ISOCode = "" /\ i.InEU = FALSE /\ i.City = ""
    /\ i.Region = "" /\ i.Timezone = ""
    /\ i.Latitude = <<>> /\ i.Longitude = <<>>

\* C7: the two dataset queries are independent. Location match without ASN
\* match: asn and organization absent, location fields populated from the
\* matched record. ASN match without location match: asn and organization
\* populated, every location field absent. Neither miss fails the call.
C7_QueriesIndependent ==
    \A p \in Procs :
        Returned(p) =>
            /\ (~city[p].err /\ asn[p].err) =>
                  /\ err[p] = "nil"
                  /\ info[p].ASN = <<>>
                  /\ info[p].Organization = ""
                  /\ LocationFrom(info[p], city[p].val)
            /\ (city[p].err /\ ~asn[p].err) =>
                  /\ err[p] = "nil"
                  /\ info[p].ASN = <<asn[p].val.AutonomousSystemNumber>>
                  /\ info[p].Organization = asn[p].val.AutonomousSystemOrganization
                  /\ LocationAbsent(info[p])

\* C7 witness: one returned lookup matched the location dataset only (with a
\* zero latitude), another the ASN dataset only.
C7_Witness ==
    \E p, q \in Procs :
        /\ Returned(p) /\ ~city[p].err /\ asn[p].err
        /\ info[p].Country = "Germany" /\ info[p].Longitude = <<9>>
        /\ Returned(q) /\ city[q].err /\ ~asn[q].err
        /\ info[q].ASN = <<19281>>

\* C8, as stated: with the databases unchanged, two returned lookups of the
\* same address are field-for-field identical.
C8_Idempotent ==
    \A p, q \in Procs :
        (Returned(p) /\ Returned(q) /\ arg[p] = arg[q] /\ cityOpen /\ asnOpen) =>
            (info[p] = info[q] /\ err[p] = err[q])

\* C8, amended: with the databases unchanged, two returned lookups of the
\* same address are identical in every field other than hostname, and in
\* hostname too when reverse DNS is disabled.
C8_IdempotentUpToHostname ==
    \A p, q \in Procs :
        (Returned(p) /\ Returned(q) /\ arg[p] = arg[q] /\ cityOpen /\ asnOpen) =>
            /\ [info[p] EXCEPT !.Hostname = <<>>] = [info[q] EXCEPT !.Hostname = <<>>]
            /\ err[p] = err[q]
            /\ ~enableOnlineFeatures => info[p] = info[q]

\* C8 witness: two callers hold the result of a lookup of the same matched
\* address while the databases are open.
C8_Witness ==
    /\ cityOpen /\ asnOpen
    /\ Returned(1) /\ Returned(2)
    /\ arg[1] = IPBoth /\ arg[2] = IPBoth
    /\ info[1].Country = "United States"
    /\ info[1].Hostname # info[2].Hostname

\* p is inside the region of Lookup guarded by the shared lock
Holding(p) == pc[p] \in {"city", "asn", "dns", "return"}

\* Close is inside the region guarded by the exclusive lock
Closing == cpc \in {"city", "asn", "return"}

\* C9: Close never closes the handles while a Lookup is in flight: Close is
\* never inside its locked region while a Lookup holds the shared lock, and
\* no handle changes under a Lookup that holds the shared lock.
C9_CloseExcludesLookups ==
    /\ [](~(Closing /\ \E p \in Procs : Holding(p)))
    /\ [][(\E p \in Procs : Holding(p)) =>
             (cityOpen' = cityOpen /\ asnOpen' = asnOpen)]_vars

\* C9 witness: Close has been called and waits for the lock while every
\* caller is inside Lookup with the handles open.
C9_Witness ==
    /\ cpc = "lock"
    /\ \A p \in Procs : Holding(p)
    /\ cityOpen /\ asnOpen

\* C10: lookups take a shared permit: a Lookup that is about to take the
\* lock can take it whenever no Close holds or waits for the lock, whatever
\* the other lookups are doing.
C10_LookupsShare ==
    \A p \in Procs :
        (pc[p] = "rlock" /\ cpc \in {"idle", "done"}) => ENABLED LookupRLock(p)

\* C10 witness: two Lookup calls are inside the locked region at once.
C10_Witness ==
    /\ Holding(1) /\ Holding(2)
    /\ mu.readerCount = 2

\* C14: Lookup fails only if both dataset queries failed; when exactly one
\* of them has no match or fails, Lookup succeeds and the fields of that
\* dataset are empty.
C14_SingleMissIsSuccess ==
    \A p \in Procs :
        Returned(p) =>
            /\ err[p] # "nil" => (city[p].err /\ asn[p].err)
            /\ (city[p].err /\ ~asn[p].err) =>
                  (err[p] = "nil" /\ LocationAbsent(info[p]))
            /\ (~city[p].err /\ asn[p].err) =>
                  (err[p] = "nil" /\ info[p].ASN = <<>> /\ info[p].Organization = "")

\* C14 witness: a lookup whose ASN query found nothing, and one whose city
\* query found nothing, have both returned.
C14_Witness ==
    \E p, q \in Procs :
        /\ Returned(p) /\ arg[p] = IPCityOnly /\ asn[p].err /\ err[p] = "nil"
        /\ Returned(q) /\ arg[q] = IPAsnOnly /\ city[q].err /\ err[q] = "nil"

\* C19: in every record Lookup returns, latitude and longitude are both
\* present or both absent; absent exactly when the location dataset did not
\* match or the matched record has both exactly zero; present with the
\* dataset's values otherwise, also when only one of the two is zero.
C19_CoordinatesPaired ==
    \A p \in Procs :
        Returned(p) =>
            LET c == city[p].val
                none == city[p].err \/ (c.Latitude = 0 /\ c.Longitude = 0)
            IN /\ (info[p].Latitude = <<>>) <=> (info[p].Longitude = <<>>)
               /\ (info[p].Latitude = <<>>) <=> none
               /\ ~none => /\ info[p].Latitude = <<c.Latitude>>
                           /\ info[p].Longitude = <<c.Longitude>>

\* C19 witness: a matched record with latitude 0 and longitude 9 came back
\* with both coordinates, and a matched record with 0/0 came back with none.
C19_Witness ==
    \E p, q \in Procs :
        /\ Returned(p) /\ arg[p] = IPCityOnly
        /\ info[p].Latitude = <<0>> /\ info[p].Longitude = <<9>>
        /\ Returned(q) /\ arg[q] = IPZero /\ ~city[q].err
        /\ info[q].Latitude = <<>>

\* a name with one trailing "." removed, if it has one
StripOneDot(h) ==
    IF h # <<>> /\ h[Len(h)] = "." THEN [k \in 1..(Len(h) - 1) |-> h[k]] ELSE h

\* the hostname the claim expects for the resolver's answer d
ExpectedHostname(enabled, d) ==
    IF enabled /\ ~d.err /\ d.names # <<>>
    THEN StripOneDot(Head(d.names)) ELSE <<>>

IPTexts == {StrGoogle, StrPrivate, StrCityOnly, StrAsnOnly, StrLoopback}

\* the host part of a host:port string, the string itself without that form
HostOf(addr) ==
    CASE addr = StrRemote -> StrLoopback
      [] addr = StrRemoteGoogle -> StrGoogle
      [] OTHER -> addr

\* C15: getClientIP returns the first comma-separated entry of
\* X-Forwarded-For, trimmed, when it is an IP; otherwise X-Real-IP when it
\* is an IP; otherwise the host part of RemoteAddr, or RemoteAddr unchanged
\* when it has no host:port form.
C15_ClientIPPrecedence ==
    hpc = "got" =>
        LET first == TrimSpace(SplitFirst(req.xff))
        IN hloc.ipStr =
              IF first \in IPTexts THEN first
              ELSE IF req.xri \in IPTexts THEN req.xri
              ELSE HostOf(req.remoteAddr)

\* C15 witness: both headers hold a valid address and X-Forwarded-For, whose
\* first entry needed trimming, won.
C15_Witness ==
    /\ hpc = "got"
    /\ req.xff = StrXFFSpaced
    /\ req.xri = StrAsnOnly
    /\ hloc.ipStr = StrCityOnly

\* the response is an error response: exactly an error message and the
\* attribution string
IsErrorBody(body) ==
    /\ DOMAIN body = {"error", "attribution"}
    /\ body["error"].t = "string"
    /\ body["error"].v # ""
    /\ body["attribution"] = [t |-> "string", v |-> Attribution]

\* the texts of the model that are no IP address
BadTexts ==
    {StrInvalid, StrTooBig, StrLeadingZero, StrShort, StrRemoteColons,
     StrV6TwoEllipses}

\* the address string of a GET /api/ip request: the ip parameter, or the
\* detected client IP when the parameter is empty
AddressString(r) ==
    IF r.ip # StrEmpty THEN r.ip
    ELSE IF r.xff = StrXFFSpaced THEN StrCityOnly
    ELSE HostOf(r.remoteAddr)

\* C12: in GET /api/ip, when the address string (the ip parameter, or the
\* detected client IP when the parameter is empty) is no IP address, the
\* response is 400 with an error message and the attribution, and Lookup is
\* never invoked for the request.
C12_InvalidIPIs400 ==
    (req.route = "/api/ip" /\ AddressString(req) \in BadTexts) =>
        /\ ~hloc.called
        /\ hpc \in {"start", "done"}
        /\ hpc = "done" => (resp.status = 400 /\ IsErrorBody(resp.body))

\* C12 witness: a request without ip parameter whose detected client IP is
\* no address was answered.
C12_Witness ==
    /\ req.route = "/api/ip"
    /\ req.ip = StrEmpty
    /\ hloc.ipStr = StrRemoteColons
    /\ hpc = "done"
    /\ resp.status = 400

\* C13: in GET /api/ip, when the geo reader's Lookup returns an error for a
\* valid IP, the response is 500 with an error message and the attribution,
\* and no record or projection is written.
C13_LookupErrorIs500 ==
    (hpc = "done" /\ hloc.called /\ err[Caller] # "nil") =>
        /\ resp.status = 500
        /\ IsErrorBody(resp.body)

\* C13 witness: a failing reader was asked with a valid address and a
\* return list, and the request was answered.
C13_Witness ==
    /\ hpc = "done"
    /\ geoReader = "failing"
    /\ hloc.called
    /\ hloc.ip = IPBoth
    /\ req.return # <<>>
    /\ resp.status = 500

\* C16: every JSON response of every API route (/api/ip success and error,
\* /api/features, /api/debug, /health) contains an attribution key.
C16_AllResponsesAttributed ==
    hpc = "done" => "attribution" \in DOMAIN resp.body

\* the request was answered with a /api/ip success object
IPSuccess == hpc = "done" /\ req.route = "/api/ip" /\ resp.status = 200

\* C17: a request with return=country&return=city yields exactly the keys
\* ip, attribution, country and city, the city key only if the dataset has
\* a city for the address, and never a region or asn key.
C17_CountryCityKeys ==
    (IPSuccess /\ req.return = <<"country", "city">>) =>
        /\ {"ip", "attribution"} \subseteq DOMAIN resp.body
        /\ DOMAIN resp.body \subseteq {"ip", "attribution", "country", "city"}
        /\ "city" \in DOMAIN resp.body =>
              (~city[Caller].err /\ city[Caller].val.CityName # "")

\* C18: in every /api/ip success object, unfiltered or filtered by return=,
\* a field with no value (empty string, absent coordinate, absent ASN) is
\* omitted and never emitted as null or as an empty value.
C18_NoEmptyValues ==
    IPSuccess =>
        \A k \in DOMAIN resp.body :
            /\ resp.body[k].t # "null"
            /\ resp.body[k].t = "string" => resp.body[k].v # ""

\* NewReader has returned and main has not yet acted on the result
NewReaderReturned == mpc = "returned"

\* C11: NewReader fails with a distinct error naming the dataset that could
\* not be opened; on either failure no Reader is returned, and when the
\* city file opened but the ASN file did not, the city handle is closed
\* before returning, so a failed construction leaves no handle open.
C11_NewReaderFailure ==
    NewReaderReturned =>
        /\ ~env.cityFile => nerr = "failed to open city database"
        /\ (env.cityFile /\ ~env.asnFile) => nerr = "failed to open ASN database"
        /\ (env.cityFile /\ env.asnFile) => (nerr = "nil" /\ geoReader = "reader")
        /\ nerr # "nil" => (geoReader = "nil" /\ ~cityOpen /\ ~asnOpen)

\* C11 witness: the city file opened, the ASN file did not, and NewReader
\* has returned.
C11_Witness ==
    /\ NewReaderReturned
    /\ env.cityFile
    /\ ~env.asnFile
    /\ nerr = "failed to open ASN database"

\* the configuration is good: both paths resolve and both files open
ConfigOK == env.cityPath /\ env.asnPath /\ env.cityFile /\ env.asnFile

\* main is past NewReader: it serves, or performs the CLI lookup
Started == mpc \in {"serving", "cli", "lookup", "deferred"}

\* a route has been used or a lookup has been entered
Served == hpc # "none" \/ pc[Caller] # "idle"

\* C21: in every run of main the server listens, and the CLI lookup is
\* performed, only after NewReader opened both files; when a path is
\* unresolved or a file fails to open the process terminates with a fatal
\* error before any route is registered or any lookup is served.
C21_ConfigErrorPreventsStart ==
    /\ [](Started => (ConfigOK /\ nerr = "nil" /\ geoReader = "reader"))
    /\ []((Started /\ cpc = "idle") => (cityOpen /\ asnOpen))
    /\ [](Served => ConfigOK)
    /\ [](~ConfigOK /\ mpc = "exited" => out.exit \in {"fatal", "exit1"})
    /\ (~ConfigOK ~> (mpc = "exited" /\ out.exit \in {"fatal", "exit1"}))

\* C21 witness: the server mode was asked for, the ASN file did not open,
\* and the process has ended with the fatal error.
C21_Witness ==
    /\ mpc = "exited"
    /\ env.args = <<>>
    /\ env.cityFile
    /\ ~env.asnFile
    /\ out.exit = "fatal"
    /\ hpc = "none"

\* C22: FilterFields always returns a mapping and leaves every field of the
\* record unchanged, so projecting the same record again, or serializing
\* it afterwards, gives the same result as before: the record never
\* changes, and the mapping is a function of the record and the request.
C22_ProjectionPure ==
    /\ [][rec' = rec /\ MarshalIPInfo(rec') = MarshalIPInfo(rec)]_vars
    /\ [](ppc = "done" =>
            /\ {"ip", "attribution"} \subseteq DOMAIN result
            /\ DOMAIN result \subseteq {"ip", "attribution"} \cup RecognizedKeys
            /\ result = [k \in DOMAIN result |-> ValueOf(rec, k)])

\* C22 witness: a record with a country was projected on country and the
\* record still holds it.
C22_Witness ==
    /\ ppc = "done"
    /\ fields = <<"country", "latitude">>
    /\ rec.Country = "Germany"
    /\ result["country"] = "Germany"

\* C23: the unfiltered /api/ip response for an address whose country was
\* resolved contains the in_eu key, also when its value is false.
C23_InEUAlwaysShown ==
    (IPSuccess /\ req.return = <<>> /\ info[Caller].Country # "") =>
        "in_eu" \in DOMAIN resp.body

\* the lower-case spellings of the names of a request list
LowerNames(fs) ==
    {n \in RecognizedKeys \cup {"bogus"} :
        \E k \in DOMAIN fs :
            \/ fs[k] = n
            \/ n = "country" /\ fs[k] \in {"COUNTRY", "Country"}
            \/ n = "city" /\ fs[k] = "CiTy"
            \/ n = "asn" /\ fs[k] = "ASN"
            \/ n = "bogus" /\ fs[k] = "Bogus"}

\* C24: the return= names are case-insensitive at the HTTP boundary: the
\* body of a projection is determined by the record and the lower-case
\* spellings of the requested names, so any casing returns the body of the
\* all-lowercase request; without a return parameter the full record is
\* serialized.
C24_ReturnCaseInsensitive ==
    IPSuccess =>
        IF req.return = <<>>
        THEN resp.body = MarshalIPInfo(info[Caller])
        ELSE /\ DOMAIN resp.body =
                  {"ip", "attribution"} \cup (LowerNames(req.return) \cap RecognizedKeys)
             /\ \A k \in DOMAIN resp.body :
                  resp.body[k] = JSONOfField(k, ValueOf(info[Caller], k))

\* C24 witness: a request with mixed-case names on an address with a
\* country was answered with the country key.
C24_Witness ==
    /\ IPSuccess
    /\ req.return = <<"Country", "CiTy">>
    /\ resp.body["country"].v = "United States"

\* the canonical text of the address texts of the model
CanonicalText(t) ==
    CASE t = StrGoogle -> "8.8.8.8"
      [] t = StrPrivate -> "10.0.0.1"
      [] t = StrCityOnly -> "1.1.1.1"
      [] t = StrAsnOnly -> "9.9.9.9"
      [] t = StrLoopback -> "127.0.0.1"
      [] t = StrV6Upper -> "2001:db8::1"
      [] t = StrV6Mapped -> "8.8.8.8"

\* C25: GET /api/ip looks up the ip parameter when it is non-empty and the
\* detected client IP only when it is empty; a non-empty ip parameter that
\* is no address is rejected with 400 and never falls back to the client
\* IP; the ip of a success response is the canonical text of the address.
C25_WhichAddress ==
    (req.route = "/api/ip" /\ hpc \in {"lookup", "done"}) =>
        /\ hloc.ipStr = AddressString(req)
        /\ req.ip \in BadTexts =>
              (~hloc.called /\ resp.status = 400 /\ IsErrorBody(resp.body))
        /\ hloc.called => arg[Caller] = hloc.ip
        /\ IPSuccess => resp.body["ip"] = JString(CanonicalText(AddressString(req)))

\* C25 witness: an upper-case IPv6 parameter was looked up, although the
\* headers carry a client address, and answered in canonical form.
C25_Witness ==
    /\ IPSuccess
    /\ req.ip = StrV6Upper
    /\ req.xff = StrXFFSpaced
    /\ resp.body["ip"].v = "2001:db8::1"

\* Close has been requested and has not yet returned
CloseRequested == cpc \in {"lock", "city", "asn", "return"}

\* C26: once Close has been requested no Lookup that has not yet taken the
\* shared lock takes it before Close has run; as the in-flight Lookups
\* terminate, Close eventually gets exclusive access, closes the handles
\* and returns; every Lookup and Close releases the lock on return, so the
\* lock is held exactly by the calls that are inside.
C26_CloseNotStarved ==
    /\ [][CloseRequested =>
            \A p \in Procs : ~(pc[p] = "rlock" /\ pc'[p] # "rlock")]_vars
    /\ (cpc = "lock" ~> (cpc = "done" /\ ~cityOpen /\ ~asnOpen))
    /\ [](/\ mu.readerCount = Cardinality({p \in Procs : Holding(p)})
          /\ mu.writerHeld = Closing)

\* C26 witness: Close waits for a Lookup that is inside while another
\* Lookup waits to get in.
C26_Witness ==
    /\ cpc = "lock"
    /\ Holding(1)
    /\ pc[2] = "rlock"

\* C27: no dataset query is issued against a released handle: a Lookup that
\* holds the shared lock sees both database handles open, also when it took
\* the lock after Close completed.
C27_NoQueryOnReleasedHandle ==
    \A p \in Procs : Holding(p) => (cityOpen /\ asnOpen)

\* C28: on a location match Lookup copies country, ISO code, EU flag, city
\* and timezone from the matched record and sets region to the first listed
\* subdivision, leaving it absent when none is listed; on an ASN match it
\* sets asn, also when the number is 0, and organization; no field comes from
\* elsewhere: without the match the fields stay absent.
C28_FieldsFromMatchedRecords ==
    Returned(Caller) =>
        LET i == info[Caller]
            c == CityData(arg[Caller])
            a == ASNData(arg[Caller])
        IN /\ ~c.err =>
                /\ i.Country = c.val.CountryName
                /\ i.ISOCode = c.val.CountryIsoCode
                /\ i.InEU = c.val.IsInEuropeanUnion
                /\ i.City = c.val.CityName
                /\ i.Timezone = c.val.TimeZone
                /\ Len(c.val.Subdivisions) > 0 => i.Region = c.val.Subdivisions[1]
                /\ Len(c.val.Subdivisions) = 0 => i.Region = ""
           /\ c.err => LocationAbsent(i)
           /\ ~a.err =>
                /\ i.ASN = <<a.val.AutonomousSystemNumber>>
                /\ i.Organization = a.val.AutonomousSystemOrganization
           /\ a.err => (i.ASN = <<>> /\ i.Organization = "")

\* C28 witness: the caller got the record of an address whose location
\* record lists no subdivision and whose AS number is 0.
C28_Witness ==
    /\ Returned(Caller)
    /\ arg[Caller] = IPZero
    /\ info[Caller].Region = ""
    /\ info[Caller].ASN = <<0>>

\* every name a request may hold, in one fixed order
NameOrder ==
    <<"organization", "asn", "timezone", "longitude", "latitude", "region",
      "city", "in_eu", "iso_code", "country", "hostname", "ip", "bogus",
      "COUNTRY">>

\* the list that holds each name of the set once, in the fixed order
ListOf(names) == SelectSeq(NameOrder, LAMBDA n : n \in names)

\* fs with every name twice, in reverse order
ReversedTwice(fs) ==
    [k \in 1..(2 * Len(fs)) |-> fs[Len(fs) + 1 - ((k + 1) \div 2)]]

\* C29: the projection depends only on the set of requested names: the
\* mapping is the one of the list that holds each requested name once in a
\* fixed order, and the one of the list reversed with every name repeated.
C29_OnlyTheSetMatters ==
    ppc = "done" =>
        /\ result = FilterFields(rec, ListOf(Requested(fields)))
        /\ result = FilterFields(rec, ReversedTwice(fields))

\* C29 witness: a projection whose request repeats a recognized name.
C29_Witness ==
    /\ ppc = "done"
    /\ fields = <<"city", "city">>
    /\ "city" \in DOMAIN result

====
